---- MODULE Spec2Model ----
(***************************************************************************)
(* Model of newsapp (src/main.go): a web front-end that forwards a search  *)
(* query to the news API, computes the pagination state (Search) and       *)
(* renders it.  A request is handled by searchHandler, modelled in the     *)
(* three phases of its body: parsing the query string (lines 93-117),      *)
(* fetching from the upstream API (lines 118-148), and computing the       *)
(* pagination state and rendering it (lines 150-159).                      *)
(*                                                                         *)
(* Strings that the code parses or formats (the page parameter, the search *)
(* term) are sequences of one-character strings, so that strconv.Atoi and  *)
(* url.QueryEscape are computed and not assumed.                           *)
(***************************************************************************)
EXTENDS Integers, Sequences, FiniteSets, TLC

VARIABLES
    server,   \* main(): "init", "listening" (ListenAndServe) or "exited" (log.Fatal)
    apiKey,   \* the process-wide *apiKey
    pc,       \* per request: position of searchHandler
    req,      \* per request: the inbound request (r.URL)
    next,     \* per request: the local `next` of searchHandler
    search,   \* per allocation: the Search value a handler works on
    resp,     \* per request: the upstream reply (resp, err of http.Get)
    calls,    \* per request: the outbound calls issued, in order
    status,   \* per request: the response status written (0: none yet)
    body,     \* per request: the response body written
    logged,   \* per request: whether a template error was logged
    chain     \* a user following the rendered next-page link, request after request

vars == <<server, apiKey, pc, req, next, search, resp, calls, status, body, logged, chain>>

----------------------------------------------------------------------------
(* Bounds of the model *)

NumRequests == 2          \* requests in flight together
MaxPageLen == 3           \* length of the page parameter's text
MaxTotalResults == 65     \* largest totalResults the upstream reports
NegTotalResults == 21     \* most negative totalResults the upstream reports

(* Program constants *)

PageSize == 20
StatusOK == 200
StatusInternalServerError == 500

Requests == 1..NumRequests

----------------------------------------------------------------------------
(* Input alphabets *)

PageChars == {"0", "1", "2", "3", "-", "+", "a"}

RECURSIVE StringsUpTo(_, _)
StringsUpTo(chars, n) ==
    IF n = 0 THEN {<<>>}
    ELSE LET shorter == StringsUpTo(chars, n - 1)
         IN  shorter \cup {Append(s, c) : s \in shorter, c \in chars}

\* What params.Get("page") can see: a value, or no such parameter.
PageParams ==
    {[present |-> TRUE, value |-> s] : s \in StringsUpTo(PageChars, MaxPageLen)}
        \cup {[present |-> FALSE, value |-> <<>>]}

SmallPageParams ==
    {[present |-> TRUE, value |-> s] : s \in {<<"1">>, <<"2">>, <<"a">>}}

SearchKeys == {<<>>, <<"g", "o", " ", "&">>}

ApiKeys == {"", "key"}

Messages == {"", "Your API key is invalid"}

TotalResultsRange == (0 - NegTotalResults)..MaxTotalResults

SmallTotalResults == {20, 45}

----------------------------------------------------------------------------
(* Library functions the handler calls, computed as the library does *)

IsDigit(c) == c \in {"0", "1", "2", "3", "4", "5", "6", "7", "8", "9"}

DigitVal(c) ==
    CASE c = "0" -> 0 [] c = "1" -> 1 [] c = "2" -> 2 [] c = "3" -> 3
      [] c = "4" -> 4 [] c = "5" -> 5 [] c = "6" -> 6 [] c = "7" -> 7
      [] c = "8" -> 8 [] c = "9" -> 9

DigitChar(d) ==
    CASE d = 0 -> "0" [] d = 1 -> "1" [] d = 2 -> "2" [] d = 3 -> "3"
      [] d = 4 -> "4" [] d = 5 -> "5" [] d = 6 -> "6" [] d = 7 -> "7"
      [] d = 8 -> "8" [] d = 9 -> "9"

RECURSIVE ParseUint(_)
ParseUint(ds) ==
    IF ds = <<>> THEN 0
    ELSE ParseUint(SubSeq(ds, 1, Len(ds) - 1)) * 10 + DigitVal(ds[Len(ds)])

\* A faulty variant of Atoi: text that is no integer parses as 0 without an error.
AtoiLenient(s) ==
    LET signed == s # <<>> /\ s[1] \in {"+", "-"}
        ds == IF signed THEN Tail(s) ELSE s
    IN  IF ds = <<>> \/ \E i \in 1..Len(ds) : ~IsDigit(ds[i])
        THEN [ok |-> TRUE, val |-> 0]
        ELSE [ok |-> TRUE,
              val |-> IF signed /\ s[1] = "-" THEN 0 - ParseUint(ds) ELSE ParseUint(ds)]

\* strconv.Atoi: an optional sign, then one or more decimal digits.  (Texts of
\* at most MaxPageLen characters are far inside the range of int.)
Atoi(s) ==
    LET signed == s # <<>> /\ s[1] \in {"+", "-"}
        ds == IF signed THEN Tail(s) ELSE s
    IN  IF ds = <<>> \/ \E i \in 1..Len(ds) : ~IsDigit(ds[i])
        THEN [ok |-> FALSE, val |-> 0]
        ELSE [ok |-> TRUE,
              val |-> IF signed /\ s[1] = "-" THEN 0 - ParseUint(ds) ELSE ParseUint(ds)]

\* url.QueryEscape on the characters of SearchKeys.
EscapeChar(c) ==
    CASE c = " " -> <<"+">>
      [] c = "&" -> <<"%", "2", "6">>
      [] OTHER -> <<c>>

RECURSIVE QueryEscape(_)
QueryEscape(s) ==
    IF s = <<>> THEN <<>> ELSE EscapeChar(Head(s)) \o QueryEscape(Tail(s))

\* Go's integer division: the quotient truncated toward zero (b > 0).
GoDiv(a, b) == IF a >= 0 THEN a \div b ELSE 0 - ((0 - a) \div b)

----------------------------------------------------------------------------
(* The pagination model *)

ZeroResults == [Status |-> "", TotalResults |-> 0]

ZeroSearch == [SearchKey |-> <<>>, NextPage |-> 0, TotalPages |-> 0, Results |-> ZeroResults]

\* A faulty variant of IsLastPage: the comparison is strict.
IsLastPageStrict(s) == s.NextPage > s.TotalPages

IsLastPage(s) == s.NextPage >= s.TotalPages

CurrentPage(s) == IF s.NextPage = 1 THEN s.NextPage ELSE s.NextPage - 1

PreviousPage(s) == CurrentPage(s) - 1

\* A faulty variant of TotalPagesOf: the quotient is rounded up.
TotalPagesCeil(totalResults, pageSize) ==
    IF totalResults >= 0 THEN (totalResults + pageSize - 1) \div pageSize
    ELSE GoDiv(totalResults, pageSize)

\* int(math.Ceil(float64(totalResults / pageSize))): the division is the
\* integer one, so Ceil is applied to a whole number and changes nothing.
TotalPagesOf(totalResults, pageSize) == GoDiv(totalResults, pageSize)

\* if ok := !search.IsLastPage(); ok { search.NextPage++ }
Advance(s) == IF ~IsLastPage(s) THEN [s EXCEPT !.NextPage = @ + 1] ELSE s

----------------------------------------------------------------------------
(* The upstream API's replies to one GET *)

NoResp ==
    [err |-> FALSE, StatusCode |-> 0, decodes |-> FALSE, Message |-> "", TotalResults |-> 0]

TransportFailure == [NoResp EXCEPT !.err = TRUE]

OkReply(t) ==
    [err |-> FALSE, StatusCode |-> StatusOK, decodes |-> TRUE, Message |-> "",
     TotalResults |-> t]

Replies(totals) ==
    {TransportFailure}
        \cup {[NoResp EXCEPT !.StatusCode = c] : c \in {401, 500}}
        \cup {[NoResp EXCEPT !.StatusCode = 401, !.decodes = TRUE, !.Message = m] :
                m \in Messages}
        \cup {[NoResp EXCEPT !.StatusCode = StatusOK]}
        \cup {OkReply(t) : t \in totals}

----------------------------------------------------------------------------
(* searchHandler, phase by phase *)

NoReq == [urlOK |-> TRUE, q |-> <<>>, page |-> [present |-> FALSE, value |-> <<>>]]

\* url.Values.Get: the parameter's value, or "" when there is none.
Get(param) == IF param.present THEN param.value ELSE <<>>

\* Lines 93-117: re-parse the URL, read q and page, allocate the Search, parse
\* the page number.
ParseStep(rq) ==
    IF ~rq.urlOK
    THEN [pc |-> "Failed", allocated |-> FALSE, search |-> ZeroSearch, next |-> 0,
          status |-> StatusInternalServerError, body |-> <<"Internal server error">>]
    ELSE LET page == IF Get(rq.page) = <<>> THEN <<"1">> ELSE Get(rq.page)
             s == [ZeroSearch EXCEPT !.SearchKey = rq.q]
             n == Atoi(page)
         IN  IF ~n.ok
             THEN [pc |-> "Failed", allocated |-> TRUE, search |-> s, next |-> n.val,
                   status |-> StatusInternalServerError,
                   body |-> <<"Unexpected server error", "\n">>]
             ELSE [pc |-> "Fetching", allocated |-> TRUE,
                   search |-> [s EXCEPT !.NextPage = n.val], next |-> n.val,
                   status |-> 0, body |-> <<>>]

\* The GET that line 121-122 issues for the Search s.
Endpoint(s, key) ==
    [q |-> QueryEscape(s.SearchKey), pageSize |-> PageSize, page |-> s.NextPage,
     apiKey |-> key]

\* A faulty variant of FetchStep: a transport failure is retried instead of reported.
FetchStepRetry(s, reply) ==
    IF reply.err
    THEN [pc |-> "Fetching", search |-> s, status |-> 0, body |-> <<>>]
    ELSE IF reply.StatusCode # StatusOK
    THEN [pc |-> "Failed", search |-> s, status |-> StatusInternalServerError,
          body |-> IF reply.decodes THEN <<reply.Message, "\n">>
                   ELSE <<"Unexpected server error", "\n">>]
    ELSE IF ~reply.decodes
    THEN [pc |-> "Failed", search |-> s, status |-> StatusInternalServerError,
          body |-> <<>>]
    ELSE LET got == [s EXCEPT !.Results = [Status |-> "ok",
                                          TotalResults |-> reply.TotalResults]]
             paged == [got EXCEPT !.TotalPages =
                                    TotalPagesOf(got.Results.TotalResults, PageSize)]
         IN  [pc |-> "Rendering", search |-> Advance(paged), status |-> 0, body |-> <<>>]

\* Lines 124-154: the outcome of the GET, then the pagination state.
FetchStep(s, reply) ==
    IF reply.err
    THEN [pc |-> "Failed", search |-> s, status |-> StatusInternalServerError,
          body |-> <<"Internal server error">>]
    ELSE IF reply.StatusCode # StatusOK
    THEN [pc |-> "Failed", search |-> s, status |-> StatusInternalServerError,
          body |-> IF reply.decodes THEN <<reply.Message, "\n">>
                   ELSE <<"Unexpected server error", "\n">>]
    ELSE IF ~reply.decodes
    THEN [pc |-> "Failed", search |-> s, status |-> StatusInternalServerError,
          body |-> <<>>]
    ELSE LET got == [s EXCEPT !.Results = [Status |-> "ok",
                                          TotalResults |-> reply.TotalResults]]
             paged == [got EXCEPT !.TotalPages =
                                    TotalPagesOf(got.Results.TotalResults, PageSize)]
         IN  [pc |-> "Rendering", search |-> Advance(paged), status |-> 0, body |-> <<>>]

\* A faulty variant of RenderStep: a template error is reported as a failed request.
RenderStepFails(ok) ==
    IF ok
    THEN [pc |-> "Done", status |-> StatusOK, body |-> <<"results">>, logged |-> FALSE]
    ELSE [pc |-> "Failed", status |-> StatusInternalServerError,
          body |-> <<"Unexpected server error", "\n">>, logged |-> TRUE]

\* Lines 156-159: tpl.Execute writes the page (the first write commits status
\* 200); its error is logged and nothing else.
RenderStep(ok) ==
    [pc |-> "Done", status |-> StatusOK,
     body |-> IF ok THEN <<"results">> ELSE <<>>, logged |-> ~ok]

\* A faulty variant of SearchOf: every handler works on one process-wide Search.
SearchShared(r) == 1

\* search := &Search{}: each invocation of the handler allocates its own.
SearchOf(r) == r

----------------------------------------------------------------------------
(* Actions *)

Init ==
    /\ server = "init"
    /\ apiKey = "unset"
    /\ pc = [r \in Requests |-> "Idle"]
    /\ req = [r \in Requests |-> NoReq]
    /\ next = [r \in Requests |-> 0]
    /\ search = [r \in Requests |-> ZeroSearch]
    /\ resp = [r \in Requests |-> NoResp]
    /\ calls = [r \in Requests |-> <<>>]
    /\ status = [r \in Requests |-> 0]
    /\ body = [r \in Requests |-> <<>>]
    /\ logged = [r \in Requests |-> FALSE]
    /\ chain = [totalResults |-> 0, reqPage |-> 0, search |-> ZeroSearch]

\* main(): the flag is parsed into apiKey; an empty key is fatal, otherwise the
\* routes are registered and the server listens.
Main ==
    /\ server = "init"
    /\ \E key \in ApiKeys :
          /\ apiKey' = key
          /\ server' = IF key = "" THEN "exited" ELSE "listening"
    /\ UNCHANGED <<pc, req, next, search, resp, calls, status, body, logged, chain>>

\* The mux hands a GET /search to searchHandler.
Accept(r, pages) ==
    /\ server = "listening"
    /\ pc[r] = "Idle"
    /\ \E u \in BOOLEAN, q \in SearchKeys, p \in pages :
          req' = [req EXCEPT ![r] = [urlOK |-> u, q |-> q, page |-> p]]
    /\ pc' = [pc EXCEPT ![r] = "Parsing"]
    /\ UNCHANGED <<server, apiKey, next, search, resp, calls, status, body, logged, chain>>

Parse(r) ==
    /\ pc[r] = "Parsing"
    /\ LET out == ParseStep(req[r])
       IN  /\ pc' = [pc EXCEPT ![r] = out.pc]
           /\ next' = [next EXCEPT ![r] = out.next]
           /\ search' = IF out.allocated
                        THEN [search EXCEPT ![SearchOf(r)] = out.search]
                        ELSE search
           /\ status' = [status EXCEPT ![r] = out.status]
           /\ body' = [body EXCEPT ![r] = out.body]
    /\ UNCHANGED <<server, apiKey, req, resp, calls, logged, chain>>

Fetch(r, totals) ==
    /\ pc[r] = "Fetching"
    /\ \E reply \in Replies(totals) :
          LET s == search[SearchOf(r)]
              out == FetchStep(s, reply)
          IN  /\ calls' = [calls EXCEPT ![r] = Append(@, Endpoint(s, apiKey))]
              /\ resp' = [resp EXCEPT ![r] = reply]
              /\ pc' = [pc EXCEPT ![r] = out.pc]
              /\ search' = [search EXCEPT ![SearchOf(r)] = out.search]
              /\ status' = [status EXCEPT ![r] = out.status]
              /\ body' = [body EXCEPT ![r] = out.body]
    /\ UNCHANGED <<server, apiKey, req, next, logged, chain>>

Render(r) ==
    /\ pc[r] = "Rendering"
    /\ \E ok \in BOOLEAN :
          LET out == RenderStep(ok)
          IN  /\ pc' = [pc EXCEPT ![r] = out.pc]
              /\ status' = [status EXCEPT ![r] = out.status]
              /\ body' = [body EXCEPT ![r] = out.body]
              /\ logged' = [logged EXCEPT ![r] = out.logged]
    /\ UNCHANGED <<server, apiKey, req, next, search, resp, calls, chain>>

\* One request, every input.
Next ==
    \/ Main
    \/ Accept(1, PageParams)
    \/ Parse(1)
    \/ Fetch(1, TotalResultsRange)
    \/ Render(1)

Spec == Init /\ [][Next]_vars

\* NumRequests requests whose handlers interleave.
ConcNext ==
    \/ Main
    \/ \E r \in Requests : Accept(r, SmallPageParams)
    \/ \E r \in Requests : Parse(r)
    \/ \E r \in Requests : Fetch(r, SmallTotalResults)
    \/ \E r \in Requests : Render(r)

ConcSpec == Init /\ [][ConcNext]_vars

----------------------------------------------------------------------------
(* Forward pagination: a user who searches once and then keeps following the
   next-page link of the page shown, while the upstream keeps reporting the
   same totalResults. *)

ChainKey == <<"g", "o">>

\* The decimal text of the NextPage shown in the link.
RECURSIVE Itoa(_)
Itoa(n) ==
    IF n < 0 THEN <<"-">> \o Itoa(0 - n)
    ELSE IF n < 10 THEN <<DigitChar(n)>>
    ELSE Itoa(n \div 10) \o <<DigitChar(n % 10)>>

\* The request the user sends next: the search form (no page parameter) at
\* first, afterwards the link to NextPage.
ChainRequest ==
    [urlOK |-> TRUE, q |-> ChainKey,
     page |-> IF chain.reqPage = 0
              THEN [present |-> FALSE, value |-> <<>>]
              ELSE [present |-> TRUE, value |-> Itoa(chain.search.NextPage)]]

ChainInit ==
    /\ server = "listening"
    /\ apiKey = "key"
    /\ pc = [r \in Requests |-> "Idle"]
    /\ req = [r \in Requests |-> NoReq]
    /\ next = [r \in Requests |-> 0]
    /\ search = [r \in Requests |-> ZeroSearch]
    /\ resp = [r \in Requests |-> NoResp]
    /\ calls = [r \in Requests |-> <<>>]
    /\ status = [r \in Requests |-> 0]
    /\ body = [r \in Requests |-> <<>>]
    /\ logged = [r \in Requests |-> FALSE]
    /\ chain \in {[totalResults |-> t, reqPage |-> 0, search |-> ZeroSearch] :
                    t \in TotalResultsRange}

\* One whole successful run of searchHandler on the user's next request.
ChainStep ==
    /\ LET parsed == ParseStep(ChainRequest)
           fetched == FetchStep(parsed.search, OkReply(chain.totalResults))
       IN  /\ parsed.pc = "Fetching"
           /\ fetched.pc = "Rendering"
           /\ chain' = [chain EXCEPT !.reqPage = parsed.next, !.search = fetched.search]
    /\ UNCHANGED <<server, apiKey, pc, req, next, search, resp, calls, status, body, logged>>

ChainNext == ChainStep

\* The user keeps paginating: the next request is eventually sent.
ChainSpec == ChainInit /\ [][ChainNext]_vars /\ WF_vars(ChainStep)

----------------------------------------------------------------------------
(* Vocabulary of the properties *)

\* The text of a decimal integer: digits, with an optional sign in front.
IsIntegerText(s) ==
    /\ s # <<>>
    /\ \A i \in 2..Len(s) : IsDigit(s[i])
    /\ \/ IsDigit(s[1])
       \/ s[1] \in {"+", "-"} /\ Len(s) >= 2

\* The page parameter is given and is not an integer.
BadPage(r) == Get(req[r].page) # <<>> /\ ~IsIntegerText(Get(req[r].page))

\* The request got through the parsing phase.
PassedParsing(r) == pc[r] \in {"Fetching", "Rendering", "Done"} \/ (pc[r] = "Failed" /\ calls[r] # <<>>)

Rendered(r) == pc[r] \in {"Rendering", "Done"}

GenericText == {<<"Internal server error">>, <<"Unexpected server error", "\n">>}

Contains(b, m) == \E i \in 1..Len(b) : b[i] = m

Max(a, b) == IF a >= b THEN a ELSE b

----------------------------------------------------------------------------
(* Properties *)

\* C1: after a successful fetch of the requested page p with total pages T,
\* NextPage is p + 1 when p < T and is p when p >= T.
C1_AdvanceRule ==
    \A r \in Requests :
        Rendered(r) =>
            LET s == search[SearchOf(r)]
            IN  s.NextPage = IF next[r] < s.TotalPages THEN next[r] + 1 ELSE next[r]

\* C1: page 2 of 3 was fetched and NextPage became 3.
C1_Witness ==
    \E r \in Requests :
        /\ pc[r] = "Done"
        /\ next[r] = 2
        /\ search[SearchOf(r)].TotalPages = 3
        /\ search[SearchOf(r)].NextPage = 3

\* C2: for totalResults >= 0, TotalPages is the quotient of totalResults by the
\* page size 20 with the remainder dropped; 45 results give 2 pages.
C2_TotalPagesTruncates ==
    \A r \in Requests :
        LET s == search[SearchOf(r)]
            n == s.Results.TotalResults
        IN  Rendered(r) /\ n >= 0 =>
                /\ s.TotalPages * 20 <= n
                /\ n < s.TotalPages * 20 + 20
                /\ n = 45 => s.TotalPages = 2

\* C2: a search that found 45 results was given 2 pages.
C2_Witness ==
    \E r \in Requests :
        /\ pc[r] = "Done"
        /\ search[SearchOf(r)].Results.TotalResults = 45
        /\ search[SearchOf(r)].TotalPages = 2

\* C3: when the Search of a successful request for page p >= 1 is rendered,
\* CurrentPage() is p, whatever count of results (0 or more) the upstream gave.
C3_CurrentPageIsFetched ==
    \A r \in Requests :
        Rendered(r) /\ next[r] >= 1 /\ search[SearchOf(r)].Results.TotalResults >= 0 =>
            CurrentPage(search[SearchOf(r)]) = next[r]

\* C4: every failure of the upstream call is answered with status 500 and a
\* message: generic text for a transport failure, an undecodable error body or
\* an undecodable success body, the upstream's message for a decoded rejection.
C4_FailureCarriesMessage ==
    \A r \in Requests :
        pc[r] = "Failed" /\ calls[r] # <<>> =>
            /\ status[r] = 500
            /\ IF ~resp[r].err /\ resp[r].StatusCode # 200 /\ resp[r].decodes
               THEN Contains(body[r], resp[r].Message)
               ELSE body[r] \in GenericText

\* C5: a request whose page parameter is given and is not an integer ends
\* Failed with status 500 and without any upstream call; with no page
\* parameter, or an empty one, the page is 1 and parsing does not fail.
C5_BadPageFailsWithoutCall ==
    \A r \in Requests :
        pc[r] \notin {"Idle", "Parsing"} =>
            /\ BadPage(r) => pc[r] = "Failed" /\ status[r] = 500 /\ calls[r] = <<>>
            /\ req[r].urlOK /\ Get(req[r].page) = <<>> =>
                  next[r] = 1 /\ PassedParsing(r)

\* C5: the request for page "1a" has failed.
C5_Witness ==
    \E r \in Requests :
        /\ pc[r] = "Failed"
        /\ req[r].urlOK
        /\ req[r].page = [present |-> TRUE, value |-> <<"1", "a">>]

\* C6: a request that passed parsing issues exactly one upstream call whatever
\* the outcome, and no request issues a second one.
C6_ExactlyOneCall ==
    \A r \in Requests :
        /\ Len(calls[r]) <= 1
        /\ pc[r] \in {"Idle", "Parsing", "Fetching"} => calls[r] = <<>>
        /\ Rendered(r) => Len(calls[r]) = 1
        /\ pc[r] = "Failed" =>
              Len(calls[r]) = IF req[r].urlOK /\ ~BadPage(r) THEN 1 ELSE 0

\* C6: a request failed on a transport error after its one call.
C6_Witness ==
    \E r \in Requests : pc[r] = "Failed" /\ resp[r].err /\ Len(calls[r]) = 1

\* The steps of one request that the state machine of C7 allows, given what
\* may send the parsing phase to Failed.
C7_Step(r, parseFailure) ==
    /\ pc'[r] # pc[r] =>
          \/ pc[r] = "Idle" /\ pc'[r] = "Parsing"
          \/ pc[r] = "Parsing" /\ pc'[r] = "Fetching"
          \/ pc[r] = "Parsing" /\ pc'[r] = "Failed" /\ parseFailure
          \/ pc[r] = "Fetching" /\ pc'[r] = "Rendering"
          \/ /\ pc[r] = "Fetching" /\ pc'[r] = "Failed"
             /\ resp'[r].err \/ resp'[r].StatusCode # 200 \/ ~resp'[r].decodes
          \/ pc[r] = "Rendering" /\ pc'[r] = "Done"
    /\ pc[r] = "Rendering" /\ logged'[r] => pc'[r] = "Done" /\ status'[r] = 200
    /\ status[r] # 0 => status'[r] = status[r]

\* C7, as stated: the only steps are Parsing -> Fetching -> Rendering -> Done,
\* Parsing -> Failed on a bad page number and Fetching -> Failed on an upstream
\* error; a template error leaves the request on its way to Done with the
\* status it has.
C7_Original == [][\A r \in Requests : C7_Step(r, BadPage(r))]_vars

\* C7, amended: Parsing -> Failed also happens when the request URL cannot be
\* parsed again.
C7_StateMachine == [][\A r \in Requests : C7_Step(r, BadPage(r) \/ ~req[r].urlOK)]_vars

\* C7: a request is Done with status 200 although its template failed.
C7_Witness ==
    \E r \in Requests : pc[r] = "Done" /\ logged[r] /\ status[r] = 200

\* C8: once parsing succeeded NextPage is at least 1, and so is the page sent
\* to the upstream, whatever integer the page parameter holds.
C8_NextPagePositive ==
    \A r \in Requests :
        PassedParsing(r) =>
            /\ search[SearchOf(r)].NextPage >= 1
            /\ \A i \in 1..Len(calls[r]) : calls[r][i].page >= 1

\* What request r has reached when its handler runs alone on its own request
\* and its own upstream reply.
C9_Alone(r) ==
    LET parsed == ParseStep(req[r])
        fetched == FetchStep(parsed.search, resp[r])
        own == search[SearchOf(r)]
    IN  /\ pc[r] \in {"Idle", "Parsing"} => own = ZeroSearch /\ status[r] = 0
        /\ pc[r] = "Fetching" => own = parsed.search /\ status[r] = 0
        /\ pc[r] = "Failed" /\ calls[r] = <<>> =>
              /\ own = parsed.search
              /\ status[r] = parsed.status /\ body[r] = parsed.body
        /\ pc[r] = "Failed" /\ calls[r] # <<>> =>
              /\ own = fetched.search
              /\ status[r] = fetched.status /\ body[r] = fetched.body
        /\ Rendered(r) => own = fetched.search
        /\ pc[r] = "Done" => status[r] = 200
        /\ calls[r] # <<>> => calls[r] = <<Endpoint(parsed.search, apiKey)>>

\* C9: however the handlers of concurrent requests interleave, each request's
\* Search and response are those of the request running alone, and apiKey is
\* written at startup, before any request, and never again.
C9_Isolation ==
    /\ [](\A r \in Requests : C9_Alone(r))
    /\ [](\A r \in Requests : pc[r] # "Idle" => server = "listening")
    /\ [][server = "listening" => apiKey' = apiKey]_vars

\* C9: two requests with different terms and pages have both been rendered.
C9_Witness ==
    /\ pc[1] = "Done" /\ pc[2] = "Done"
    /\ req[1].q # req[2].q
    /\ next[1] = 1 /\ search[SearchOf(1)].NextPage = 2
    /\ next[2] = 2 /\ search[SearchOf(2)].TotalPages = 1

\* C10: along the chain the requested pages never decrease and never exceed
\* max(1, TotalPages), and the chain reaches a point from which IsLastPage()
\* holds and NextPage stays at the page requested.
C10_ForwardConverges ==
    /\ [][chain'.reqPage >= chain.reqPage]_vars
    /\ [](chain.reqPage # 0 => chain.reqPage <= Max(1, chain.search.TotalPages))
    /\ <>[](/\ chain.reqPage # 0
            /\ chain.search.NextPage >= chain.search.TotalPages
            /\ chain.search.NextPage = chain.reqPage)

\* C10: the chain has arrived at page 3 of 3, the last.
C10_Witness ==
    /\ chain.reqPage = 3
    /\ chain.search.TotalPages = 3
    /\ chain.search.NextPage = 3

====
